---- MODULE Spec2Model ----
(***************************************************************************)
(* Model of double_translator.py: the push-to-talk control loop of the     *)
(* main thread, the exit-button callback thread (gpiozero), and the audio  *)
(* callback thread of the input stream (sounddevice / PortAudio).          *)
(*                                                                         *)
(* Every read or write of a variable shared between threads is one step    *)
(* of the main thread, so the exit callback and the audio callback may     *)
(* interleave between any two of them.                                     *)
(***************************************************************************)
EXTENDS Integers, Sequences, FiniteSets, TLC

\* ---------------------------------------------------------------- bounds
MaxChunks == 2        \* chunks the audio callback delivers in one session
MaxExitPresses == 2   \* presses of the exit button in one run
MaxLoads == 3         \* load_models calls of the stand-alone load driver

\* ------------------------------------------------------ program constants
ToggleCount == 8      \* for _ in range(8): red_led.toggle()

None == "None"
EN_TO_ES == "en_to_es"
ES_TO_EN == "es_to_en"
Directions == {EN_TO_ES, ES_TO_EN}

MODE_EN_ES_FILE == "./en-es-mode-quieter.wav"
MODE_ES_EN_FILE == "./es-en-mode-quieter.wav"
NO_AUDIO_EN_FILE == "./no_audio-en-quieter.wav"
NO_AUDIO_ES_FILE == "./no_audio-es-quieter.wav"
EXIT_FILE == "./exit1.wav"

VARIABLES
  \* --- main thread
  pc,                 \* position of the main thread
  current_direction,  \* global current_direction
  direction_changed,  \* result of the two wait_for_... functions
  new_direction,      \* local of the playback-decision poll
  play_translation,
  text, translation, audio,
  excn,               \* exception propagating to the outer try ("None" if none)
  \* --- load_models / unload_models
  loadDir, ret,       \* argument of the last load_models call, and its call site
  vosk_model, translator, sp_source, sp_target, piper_voice, piper_config,
  gcRuns,             \* gc.collect() ran since load_models was entered
  loads,              \* load_models calls made by the load driver
  \* --- hardware
  red_led, green_led, record_button, direction_switch,
  \* --- exit callback thread
  exit_requested, epc, toggles, presses,
  \* --- capture session
  q, frames, recording, stream,
  cbpc, indata,       \* audio callback thread: position and chunk in hand
  \* --- observation of the run (written, never read, by the program)
  delivered,          \* chunks delivered to the callback this session
  enqueued,           \* chunks q.put() received this session, in order
  streamOutcome,      \* how opening the stream went this session
  detected,           \* waiting phase that saw the direction change
  exitAtDetect,       \* exit_requested was true when the change was seen
  calls,              \* external stage calls since the session started
  lastAudio           \* last file the main thread handed to play_audio_file

mainVars == <<pc, current_direction, direction_changed, new_direction,
              play_translation,
              text, translation, audio, excn>>
loadVars == <<loadDir, ret>>
modelVars == <<vosk_model, translator, sp_source, sp_target, piper_voice,
               piper_config, gcRuns>>
ledVars == <<red_led, green_led>>
inputVars == <<record_button, direction_switch>>
exitVars == <<exit_requested, epc, toggles, presses>>
captureVars == <<q, frames, recording, stream>>
cbVars == <<cbpc, indata, delivered, enqueued>>
obsVars == <<streamOutcome, detected, exitAtDetect, calls, lastAudio>>
vars == <<mainVars, loadVars, modelVars, loads, ledVars, inputVars, exitVars,
          captureVars, cbVars, obsVars>>

\* ------------------------------------------------------------- helpers

\* get_translation_direction()
get_translation_direction ==
  IF direction_switch = 1 THEN ES_TO_EN ELSE EN_TO_ES

\* The resources load_models(direction) constructs, by model path.
ModelSet(direction) ==
  IF direction = EN_TO_ES
  THEN [vosk |-> "VOSK_EN", ct |-> "CT_EN_ES", src |-> "SP_EN_ES_SRC",
        tgt |-> "SP_EN_ES_TGT", voice |-> "PIPER_ES", config |-> "PIPER_CONFIG_ES"]
  ELSE [vosk |-> "VOSK_ES", ct |-> "CT_ES_EN", src |-> "SP_ES_EN_SRC",
        tgt |-> "SP_ES_EN_TGT", voice |-> "PIPER_EN", config |-> "PIPER_CONFIG_EN"]

\* play_mode_announcement(direction): the file it selects
ModeFile(direction) ==
  IF direction = ES_TO_EN THEN MODE_ES_EN_FILE ELSE MODE_EN_ES_FILE

\* A mutant of NoAudioFile: the two announcements swapped.
NoAudioFile_Swapped(direction) ==
  IF direction = EN_TO_ES THEN NO_AUDIO_ES_FILE ELSE NO_AUDIO_EN_FILE

\* play_no_audio(direction): the file it selects
NoAudioFile(direction) ==
  IF direction = EN_TO_ES THEN NO_AUDIO_EN_FILE ELSE NO_AUDIO_ES_FILE

\* play_audio_file(file_path) on the main thread; exists is os.path.exists
PlayAudioFile(file_path, exists) ==
  lastAudio' = [file |-> file_path, played |-> exists]

\* str.strip(): leading and trailing whitespace removed
RECURSIVE LStrip(_)
LStrip(t) == IF t # <<>> /\ Head(t) = " " THEN LStrip(Tail(t)) ELSE t
RECURSIVE RStrip(_)
RStrip(t) ==
  IF t # <<>> /\ t[Len(t)] = " " THEN RStrip(SubSeq(t, 1, Len(t) - 1)) ELSE t
Strip(t) == RStrip(LStrip(t))

\* np.concatenate(frames, axis=0) if frames else np.array([])
RECURSIVE Concatenate(_)
Concatenate(fs) == IF fs = <<>> THEN <<>> ELSE Head(fs) \o Concatenate(Tail(fs))

\* Texts the recognizer may return (result.get("text", ""))
Texts == {<<>>, <<" ", " ">>, <<"h", "i">>}

NoCalls == [transcribe |-> 0, punctuate |-> 0, translate |-> 0, speak |-> 0]
NoAudioPlayed == [file |-> None, played |-> FALSE]
NoTranslation == [ct |-> None, src |-> None, tgt |-> None, text |-> <<>>]

\* indata of the k-th callback of a session: one or two samples
Chunk(k) == [i \in 1..(1 + (k % 2)) |-> <<k, i>>]

\* ---------------------------------------------------------------- Init

InitCommon ==
  /\ current_direction = None
  /\ direction_changed = None
  /\ new_direction = None
  /\ play_translation = FALSE
  /\ text = <<>> /\ translation = NoTranslation /\ audio = <<>>
  /\ excn = None
  /\ loadDir = None
  /\ vosk_model = None /\ translator = None
  /\ sp_source = None /\ sp_target = None
  /\ piper_voice = None /\ piper_config = None
  /\ gcRuns = FALSE
  /\ loads = 0
  /\ red_led = FALSE /\ green_led = FALSE
  /\ record_button \in BOOLEAN
  /\ direction_switch \in {0, 1}
  /\ exit_requested = FALSE
  /\ epc = "idle" /\ toggles = 0 /\ presses = 0
  /\ q = <<>> /\ frames = <<>> /\ recording = FALSE /\ stream = "unbound"
  /\ cbpc = "idle" /\ indata = <<>>
  /\ delivered = 0 /\ enqueued = <<>>
  /\ streamOutcome = None /\ detected = None /\ exitAtDetect = FALSE
  /\ calls = NoCalls
  /\ lastAudio = NoAudioPlayed

Init == InitCommon /\ pc = "start" /\ ret = None

\* ------------------------------------------------- operator at the controls

PressRecord ==
  /\ ~record_button /\ record_button' = TRUE
  /\ UNCHANGED <<mainVars, loadVars, modelVars, loads, ledVars, direction_switch,
                 exitVars, captureVars, cbVars, obsVars>>

ReleaseRecord ==
  /\ record_button /\ record_button' = FALSE
  /\ UNCHANGED <<mainVars, loadVars, modelVars, loads, ledVars, direction_switch,
                 exitVars, captureVars, cbVars, obsVars>>

ToggleSwitch ==
  /\ direction_switch' = 1 - direction_switch
  /\ UNCHANGED <<mainVars, loadVars, modelVars, loads, ledVars, record_button,
                 exitVars, captureVars, cbVars, obsVars>>

\* ------------------------------------------- exit_program (callback thread)

\* A mutant of ExitPressed: a press starts by clearing the flag.
ExitPressed_ClearsFlag ==
  /\ epc = "idle" /\ presses < MaxExitPresses
  /\ epc' = "toggle" /\ toggles' = 0 /\ presses' = presses + 1
  /\ exit_requested' = FALSE
  /\ UNCHANGED <<mainVars, loadVars, modelVars, loads, ledVars, inputVars,
                 captureVars, cbVars, obsVars>>

\* exit_button.when_pressed fires: exit_program starts
ExitPressed ==
  /\ epc = "idle" /\ presses < MaxExitPresses
  /\ epc' = "toggle" /\ toggles' = 0 /\ presses' = presses + 1
  /\ UNCHANGED <<mainVars, loadVars, modelVars, loads, ledVars, inputVars,
                 exit_requested, captureVars, cbVars, obsVars>>

\* red_led.toggle(); time.sleep(0.25)
ExitToggle ==
  /\ epc = "toggle" /\ toggles < ToggleCount
  /\ red_led' = ~red_led /\ toggles' = toggles + 1
  /\ UNCHANGED <<mainVars, loadVars, modelVars, loads, green_led, inputVars,
                 exit_requested, epc, presses, captureVars, cbVars, obsVars>>

\* A mutant of ExitPlay: the exit sound is played before the toggles are done.
ExitPlay_Early ==
  /\ epc = "toggle"
  /\ epc' = "set"
  /\ UNCHANGED <<mainVars, loadVars, modelVars, loads, ledVars, inputVars,
                 exit_requested, toggles, presses, captureVars, cbVars, obsVars>>

\* play_audio_file(EXIT_FILE)
ExitPlay ==
  /\ epc = "toggle" /\ toggles = ToggleCount
  /\ epc' = "set"
  /\ UNCHANGED <<mainVars, loadVars, modelVars, loads, ledVars, inputVars,
                 exit_requested, toggles, presses, captureVars, cbVars, obsVars>>

\* exit_requested = True
ExitSetFlag ==
  /\ epc = "set"
  /\ exit_requested' = TRUE
  /\ epc' = "idle"
  /\ UNCHANGED <<mainVars, loadVars, modelVars, loads, ledVars, inputVars,
                 toggles, presses, captureVars, cbVars, obsVars>>

\* ------------------------------------------------------------ load_models

\* what a step of load_models / unload_models leaves alone
LoadFrame ==
  UNCHANGED <<current_direction, direction_changed, new_direction,
              play_translation, text, translation, audio, excn, loadVars, loads,
              ledVars, inputVars, exitVars, captureVars, cbVars, obsVars>>

\* A mutant of LoadModels_Enter: load_models without its unload_models() call.
LoadModels_Enter_NoUnload ==
  /\ pc = "load_models"
  /\ pc' = "l_vosk"
  /\ gcRuns' = FALSE
  /\ UNCHANGED <<vosk_model, translator, sp_source, sp_target, piper_voice,
                 piper_config>>
  /\ LoadFrame

\* def load_models(direction): unload_models()
LoadModels_Enter ==
  /\ pc = "load_models"
  /\ pc' = "u_vosk"
  /\ gcRuns' = FALSE
  /\ UNCHANGED <<vosk_model, translator, sp_source, sp_target, piper_voice,
                 piper_config>>
  /\ LoadFrame

\* vosk_model = None
Unload_vosk ==
  /\ pc = "u_vosk" /\ pc' = "u_ct"
  /\ vosk_model' = None
  /\ UNCHANGED <<translator, sp_source, sp_target, piper_voice, piper_config, gcRuns>>
  /\ LoadFrame

\* translator = None
Unload_translator ==
  /\ pc = "u_ct" /\ pc' = "u_src"
  /\ translator' = None
  /\ UNCHANGED <<vosk_model, sp_source, sp_target, piper_voice, piper_config, gcRuns>>
  /\ LoadFrame

\* sp_source = None
Unload_sp_source ==
  /\ pc = "u_src" /\ pc' = "u_tgt"
  /\ sp_source' = None
  /\ UNCHANGED <<vosk_model, translator, sp_target, piper_voice, piper_config, gcRuns>>
  /\ LoadFrame

\* sp_target = None
Unload_sp_target ==
  /\ pc = "u_tgt" /\ pc' = "u_gc"
  /\ sp_target' = None
  /\ UNCHANGED <<vosk_model, translator, sp_source, piper_voice, piper_config, gcRuns>>
  /\ LoadFrame

\* gc.collect(); unload_models returns into load_models
Unload_gc ==
  /\ pc = "u_gc" /\ pc' = "l_vosk"
  /\ gcRuns' = TRUE
  /\ UNCHANGED <<vosk_model, translator, sp_source, sp_target, piper_voice,
                 piper_config>>
  /\ LoadFrame

\* vosk_model = vosk.Model(VOSK_EN | VOSK_ES)
Load_vosk ==
  /\ pc = "l_vosk" /\ pc' = "l_ct"
  /\ vosk_model' = ModelSet(loadDir).vosk
  /\ UNCHANGED <<translator, sp_source, sp_target, piper_voice, piper_config, gcRuns>>
  /\ LoadFrame

\* translator = ctranslate2.Translator(CT_EN_ES | CT_ES_EN)
Load_translator ==
  /\ pc = "l_ct" /\ pc' = "l_src"
  /\ translator' = ModelSet(loadDir).ct
  /\ UNCHANGED <<vosk_model, sp_source, sp_target, piper_voice, piper_config, gcRuns>>
  /\ LoadFrame

\* sp_source = spm.SentencePieceProcessor(); sp_source.load(...)
Load_sp_source ==
  /\ pc = "l_src" /\ pc' = "l_tgt"
  /\ sp_source' = ModelSet(loadDir).src
  /\ UNCHANGED <<vosk_model, translator, sp_target, piper_voice, piper_config, gcRuns>>
  /\ LoadFrame

\* sp_target = spm.SentencePieceProcessor(); sp_target.load(...)
Load_sp_target ==
  /\ pc = "l_tgt" /\ pc' = "l_voice"
  /\ sp_target' = ModelSet(loadDir).tgt
  /\ UNCHANGED <<vosk_model, translator, sp_source, piper_voice, piper_config, gcRuns>>
  /\ LoadFrame

\* piper_voice = PIPER_ES | PIPER_EN
Load_piper_voice ==
  /\ pc = "l_voice" /\ pc' = "l_config"
  /\ piper_voice' = ModelSet(loadDir).voice
  /\ UNCHANGED <<vosk_model, translator, sp_source, sp_target, piper_config, gcRuns>>
  /\ LoadFrame

\* piper_config = PIPER_CONFIG_ES | PIPER_CONFIG_EN; load_models returns
Load_piper_config ==
  /\ pc = "l_config"
  /\ pc' = IF ret = "driver" THEN "driver" ELSE "announce"
  /\ piper_config' = ModelSet(loadDir).config
  /\ UNCHANGED <<vosk_model, translator, sp_source, sp_target, piper_voice, gcRuns>>
  /\ LoadFrame

LoadSteps ==
  \/ LoadModels_Enter
  \/ Unload_vosk \/ Unload_translator \/ Unload_sp_source \/ Unload_sp_target
  \/ Unload_gc
  \/ Load_vosk \/ Load_translator \/ Load_sp_source \/ Load_sp_target
  \/ Load_piper_voice \/ Load_piper_config

\* The load driver: load_models(d) applied to any sequence of directions.
DriverCall ==
  /\ pc = "driver" /\ loads < MaxLoads
  /\ \E d \in Directions : loadDir' = d
  /\ loads' = loads + 1
  /\ pc' = "load_models"
  /\ UNCHANGED <<current_direction, direction_changed, new_direction,
                 play_translation, text, translation, audio, excn, ret, modelVars,
                 ledVars, inputVars, exitVars, captureVars, cbVars, obsVars>>

InitLoad == InitCommon /\ pc = "driver" /\ ret = "driver"
NextLoad == DriverCall \/ LoadSteps
SpecLoad == InitLoad /\ [][NextLoad]_vars

\* -------------------------------------------------------------- main loop

\* variables of the other threads and of the operator, which no step of the
\* main thread writes
Env == <<inputVars, exitVars>>

\* current_direction = get_translation_direction(); load_models(...)
Startup ==
  /\ pc = "start"
  /\ current_direction' = get_translation_direction
  /\ loadDir' = get_translation_direction /\ ret' = "startup"
  /\ pc' = "load_models"
  /\ UNCHANGED <<direction_changed, new_direction, play_translation, text,
                 translation, audio, excn, modelVars, loads, ledVars, Env,
                 captureVars, cbVars, obsVars>>

\* play_mode_announcement(current_direction), at any of its four call sites;
\* after the one of the playback-decision poll: play_translation = False; break
PlayModeAnnouncement ==
  /\ pc = "announce"
  /\ \E exists \in BOOLEAN : PlayAudioFile(ModeFile(current_direction), exists)
  /\ pc' = IF ret = "await" THEN "aw_green_off" ELSE "loop_top"
  /\ play_translation' = IF ret = "await" THEN FALSE ELSE play_translation
  /\ ret' = None
  /\ UNCHANGED <<current_direction, direction_changed, new_direction, text,
                 translation, audio, excn, loadDir, modelVars, loads, ledVars, Env,
                 captureVars, cbVars, streamOutcome, detected, exitAtDetect, calls>>

\* while not exit_requested:
\* The values text, translation, audio, play_translation and new_direction
\* carry over from the previous cycle are never read again: each is assigned
\* (lines 303, 311, 327, 332, 337) before its next read. The model forgets
\* them here, and starts the observation of a new cycle.
LoopTop ==
  /\ pc = "loop_top"
  /\ pc' = IF exit_requested THEN "finally" ELSE "idle_red_off"
  /\ text' = <<>> /\ translation' = NoTranslation /\ audio' = <<>>
  /\ play_translation' = FALSE /\ new_direction' = None
  /\ detected' = None /\ exitAtDetect' = FALSE /\ calls' = NoCalls /\ streamOutcome' = None
  /\ lastAudio' = NoAudioPlayed
  /\ delivered' = 0 /\ enqueued' = <<>>
  /\ UNCHANGED <<current_direction, direction_changed, excn, loadVars,
                 modelVars, loads, ledVars, Env, captureVars, cbpc, indata>>

\* red_led.off()
IdleRedOff ==
  /\ pc = "idle_red_off" /\ pc' = "idle_green_off"
  /\ red_led' = FALSE
  /\ UNCHANGED <<current_direction, direction_changed, new_direction,
                 play_translation, text, translation, audio, excn, loadVars,
                 modelVars, loads, green_led, Env, captureVars, cbVars, obsVars>>

\* green_led.off(); wait_for_button_or_switch_change(current_direction) is called
IdleGreenOff ==
  /\ pc = "idle_green_off" /\ pc' = "iw_exit"
  /\ green_led' = FALSE
  /\ UNCHANGED <<current_direction, direction_changed, new_direction,
                 play_translation, text, translation, audio, excn, loadVars,
                 modelVars, loads, red_led, Env, captureVars, cbVars, obsVars>>

\* wait_for_button_or_switch_change: while not exit_requested: ... return "exit"
IdleWaitExit ==
  /\ pc = "iw_exit"
  /\ IF exit_requested
     THEN direction_changed' = "exit" /\ pc' = "idle_chk"
     ELSE direction_changed' = direction_changed /\ pc' = "iw_btn"
  /\ UNCHANGED <<current_direction, new_direction, play_translation, text,
                 translation, audio, excn, loadVars, modelVars, loads, ledVars, Env,
                 captureVars, cbVars, obsVars>>

\* A mutant of IdleWaitButton: the direction switch is read before the button.
IdleWaitButton_DirectionFirst ==
  /\ pc = "iw_btn"
  /\ IF get_translation_direction # current_direction
     THEN direction_changed' = get_translation_direction /\ pc' = "idle_chk"
     ELSE IF record_button
          THEN direction_changed' = None /\ pc' = "idle_chk"
          ELSE direction_changed' = direction_changed /\ pc' = "iw_dir"
  /\ UNCHANGED <<current_direction, new_direction, play_translation, text,
                 translation, audio, excn, loadVars, modelVars, loads, ledVars, Env,
                 captureVars, cbVars, obsVars>>

\* if record_button.is_active: return None
IdleWaitButton ==
  /\ pc = "iw_btn"
  /\ IF record_button
     THEN direction_changed' = None /\ pc' = "idle_chk"
     ELSE direction_changed' = direction_changed /\ pc' = "iw_dir"
  /\ UNCHANGED <<current_direction, new_direction, play_translation, text,
                 translation, audio, excn, loadVars, modelVars, loads, ledVars, Env,
                 captureVars, cbVars, obsVars>>

\* new_direction = get_translation_direction()
\* if new_direction != last_direction: return new_direction; time.sleep(0.01)
IdleWaitDirection ==
  /\ pc = "iw_dir"
  /\ IF get_translation_direction # current_direction
     THEN /\ direction_changed' = get_translation_direction
          /\ detected' = "idle" /\ exitAtDetect' = exit_requested
          /\ pc' = "idle_chk"
     ELSE /\ UNCHANGED <<direction_changed, detected, exitAtDetect>>
          /\ pc' = "iw_exit"
  /\ UNCHANGED <<current_direction, new_direction, play_translation, text,
                 translation, audio, excn, loadVars, modelVars, loads, ledVars, Env,
                 captureVars, cbVars, streamOutcome, calls, lastAudio>>

\* if exit_requested or direction_changed == "exit": break
\* if direction_changed: ...
IdleCheck ==
  /\ pc = "idle_chk"
  /\ pc' = IF exit_requested \/ direction_changed = "exit" THEN "finally"
           ELSE IF direction_changed # None THEN "idle_switch"
           ELSE "new_session"
  /\ UNCHANGED <<current_direction, direction_changed, new_direction,
                 play_translation, text, translation, audio, excn, loadVars,
                 modelVars, loads, ledVars, Env, captureVars, cbVars, obsVars>>

\* A mutant of IdleSwitch: the direction is assigned and announced, not loaded.
IdleSwitch_NoLoad ==
  /\ pc = "idle_switch"
  /\ current_direction' = direction_changed
  /\ loadDir' = direction_changed /\ ret' = "idle"
  /\ pc' = "announce"
  /\ UNCHANGED <<direction_changed, new_direction, play_translation, text,
                 translation, audio, excn, modelVars, loads, ledVars, Env,
                 captureVars, cbVars, obsVars>>

\* current_direction = direction_changed; load_models(current_direction)
IdleSwitch ==
  /\ pc = "idle_switch"
  /\ current_direction' = direction_changed
  /\ loadDir' = direction_changed /\ ret' = "idle"
  /\ pc' = "load_models"
  /\ UNCHANGED <<direction_changed, new_direction, play_translation, text,
                 translation, audio, excn, modelVars, loads, ledVars, Env,
                 captureVars, cbVars, obsVars>>

\* -------------------------------------------------------------- RECORDING

\* A mutant of NewSession: the queue of the earlier session is kept.
NewSession_KeepQueue ==
  /\ pc = "new_session" /\ pc' = "open_stream"
  /\ frames' = <<>> /\ recording' = TRUE
  /\ UNCHANGED <<current_direction, direction_changed, new_direction,
                 play_translation, text, translation, audio, excn, loadVars,
                 modelVars, loads, ledVars, Env, q, stream, cbVars, obsVars>>

\* q = queue.Queue(); frames = []; recording = True
NewSession ==
  /\ pc = "new_session" /\ pc' = "open_stream"
  /\ q' = <<>> /\ frames' = <<>> /\ recording' = TRUE
  /\ UNCHANGED <<current_direction, direction_changed, new_direction,
                 play_translation, text, translation, audio, excn, loadVars,
                 modelVars, loads, ledVars, Env, stream, cbVars, obsVars>>

\* try: stream = sd.InputStream(...); stream.start()
\* except Exception as e: print(...)
\*   "open_failed":  InputStream() raises, stream keeps its earlier binding
\*   "start_failed": stream is bound to the new stream, start() raises
OpenStream ==
  /\ pc = "open_stream" /\ pc' = "rec_led"
  /\ \E outcome \in {"ok", "open_failed", "start_failed"} :
       /\ streamOutcome' = outcome
       /\ stream' = CASE outcome = "ok" -> "active"
                      [] outcome = "start_failed" -> "open"
                      [] outcome = "open_failed" -> stream
  /\ UNCHANGED <<current_direction, direction_changed, new_direction,
                 play_translation, text, translation, audio, excn, loadVars,
                 modelVars, loads, ledVars, Env, q, frames, recording, cbVars,
                 detected, exitAtDetect, calls, lastAudio>>

\* red_led.on(); direction_changed = None;
\* wait_for_button_release_or_switch_change(current_direction) is called
RecordLedOn ==
  /\ pc = "rec_led" /\ pc' = "rw_btn"
  /\ red_led' = TRUE
  /\ direction_changed' = None
  /\ UNCHANGED <<current_direction, new_direction, play_translation, text,
                 translation, audio, excn, loadVars, modelVars, loads, green_led,
                 Env, captureVars, cbVars, obsVars>>

\* while record_button.is_active and ...
RecordWaitButton ==
  /\ pc = "rw_btn"
  /\ pc' = IF record_button THEN "rw_exit" ELSE "rw_after"
  /\ UNCHANGED <<current_direction, direction_changed, new_direction,
                 play_translation, text, translation, audio, excn, loadVars,
                 modelVars, loads, ledVars, Env, captureVars, cbVars, obsVars>>

\* ... and not exit_requested:
RecordWaitExit ==
  /\ pc = "rw_exit"
  /\ pc' = IF exit_requested THEN "rw_after" ELSE "rw_dir"
  /\ UNCHANGED <<current_direction, direction_changed, new_direction,
                 play_translation, text, translation, audio, excn, loadVars,
                 modelVars, loads, ledVars, Env, captureVars, cbVars, obsVars>>

\* new_direction = get_translation_direction()
\* if new_direction != last_direction: return new_direction; time.sleep(0.01)
RecordWaitDirection ==
  /\ pc = "rw_dir"
  /\ IF get_translation_direction # current_direction
     THEN /\ direction_changed' = get_translation_direction
          /\ detected' = "rec" /\ exitAtDetect' = exit_requested
          /\ pc' = "fin_flag"
     ELSE /\ UNCHANGED <<direction_changed, detected, exitAtDetect>>
          /\ pc' = "rw_btn"
  /\ UNCHANGED <<current_direction, new_direction, play_translation, text,
                 translation, audio, excn, loadVars, modelVars, loads, ledVars, Env,
                 captureVars, cbVars, streamOutcome, calls, lastAudio>>

\* if exit_requested: return "exit"; return None
RecordWaitAfter ==
  /\ pc = "rw_after" /\ pc' = "fin_flag"
  /\ direction_changed' = IF exit_requested THEN "exit" ELSE None
  /\ UNCHANGED <<current_direction, new_direction, play_translation, text,
                 translation, audio, excn, loadVars, modelVars, loads, ledVars, Env,
                 captureVars, cbVars, obsVars>>

\* the statements of the inner try block: the wait of line 286
WaitPcs == {"rw_btn", "rw_exit", "rw_dir", "rw_after"}

\* finally: recording = False
FinallyFlag ==
  /\ pc = "fin_flag" /\ pc' = "fin_stop"
  /\ recording' = FALSE
  /\ UNCHANGED <<current_direction, direction_changed, new_direction,
                 play_translation, text, translation, audio, excn, loadVars,
                 modelVars, loads, ledVars, Env, q, frames, stream, cbVars, obsVars>>

\* A mutant of StreamStop: stop() returns while a callback is still running.
StreamStop_NoJoin ==
  /\ pc = "fin_stop"
  /\ IF stream = "unbound"
     THEN /\ excn' = "NameError" /\ pc' = "finally"
          /\ UNCHANGED stream
     ELSE /\ stream' = IF stream = "active" THEN "stopped" ELSE stream
          /\ pc' = "fin_close"
          /\ UNCHANGED excn
  /\ UNCHANGED <<current_direction, direction_changed, new_direction,
                 play_translation, text, translation, audio, loadVars, modelVars,
                 loads, ledVars, Env, q, frames, recording, cbVars, obsVars>>

\* stream.stop()
\*   stream was never bound (InputStream() raised in the first session):
\*     NameError, raised inside the finally clause, leaves the main loop;
\*   stream is active: the stream is stopped; stop() returns once the callback
\*     in progress has returned;
\*   stream is not active (start() raised, or the closed stream of an earlier
\*     session): nothing to stop, the error is ignored (ignore_errors=True).
StreamStop ==
  /\ pc = "fin_stop"
  /\ IF stream = "unbound"
     THEN /\ excn' = "NameError" /\ pc' = "finally"
          /\ UNCHANGED stream
     ELSE /\ cbpc = "idle"
          /\ stream' = IF stream = "active" THEN "stopped" ELSE stream
          /\ pc' = "fin_close"
          /\ UNCHANGED excn
  /\ UNCHANGED <<current_direction, direction_changed, new_direction,
                 play_translation, text, translation, audio, loadVars, modelVars,
                 loads, ledVars, Env, q, frames, recording, cbVars, obsVars>>

\* stream.close()
StreamClose ==
  /\ pc = "fin_close" /\ pc' = "fin_red"
  /\ stream' = "closed"
  /\ UNCHANGED <<current_direction, direction_changed, new_direction,
                 play_translation, text, translation, audio, excn, loadVars,
                 modelVars, loads, ledVars, Env, q, frames, recording, cbVars,
                 obsVars>>

\* red_led.off()
\* an exception raised in the wait propagates once the clause has run
FinallyRedOff ==
  /\ pc = "fin_red"
  /\ pc' = IF excn # None THEN "finally" ELSE "rec_chk"
  /\ red_led' = FALSE
  /\ UNCHANGED <<current_direction, direction_changed, new_direction,
                 play_translation, text, translation, audio, excn, loadVars,
                 modelVars, loads, green_led, Env, captureVars, cbVars, obsVars>>

\* if exit_requested or direction_changed == "exit": break
\* elif direction_changed: ...
RecordCheck ==
  /\ pc = "rec_chk"
  /\ pc' = IF exit_requested \/ direction_changed = "exit" THEN "finally"
           ELSE IF direction_changed # None THEN "rec_switch"
           ELSE "drain"
  /\ UNCHANGED <<current_direction, direction_changed, new_direction,
                 play_translation, text, translation, audio, excn, loadVars,
                 modelVars, loads, ledVars, Env, captureVars, cbVars, obsVars>>

\* current_direction = direction_changed; load_models(current_direction)
RecordSwitch ==
  /\ pc = "rec_switch"
  /\ current_direction' = direction_changed
  /\ loadDir' = direction_changed /\ ret' = "rec"
  /\ pc' = "load_models"
  /\ UNCHANGED <<direction_changed, new_direction, play_translation, text,
                 translation, audio, excn, modelVars, loads, ledVars, Env,
                 captureVars, cbVars, obsVars>>

\* --------------------------------------- callback (audio callback thread)

\* The stream invokes callback(indata, ...): if recording: ...
CallbackEnter ==
  /\ stream = "active" /\ cbpc = "idle" /\ delivered < MaxChunks
  /\ delivered' = delivered + 1
  /\ IF recording
     THEN cbpc' = "put" /\ indata' = Chunk(delivered + 1)
     ELSE UNCHANGED <<cbpc, indata>>
  /\ UNCHANGED <<mainVars, loadVars, modelVars, loads, ledVars, Env, captureVars,
                 enqueued, obsVars>>

\* q.put(indata.copy())
CallbackPut ==
  /\ cbpc = "put"
  /\ q' = Append(q, indata)
  /\ enqueued' = Append(enqueued, indata)
  /\ cbpc' = "idle" /\ indata' = <<>>
  /\ UNCHANGED <<mainVars, loadVars, modelVars, loads, ledVars, Env, frames,
                 recording, stream, delivered, obsVars>>

\* ------------------------------------------------ drain, transcribe, translate

\* A mutant of Drain: a drained chunk is put in front of the frame list.
Drain_Prepend ==
  /\ pc = "drain" /\ q # <<>>
  /\ frames' = <<Head(q)>> \o frames
  /\ q' = Tail(q)
  /\ UNCHANGED <<mainVars, loadVars, modelVars, loads, ledVars, Env, recording,
                 stream, cbVars, obsVars>>

\* while not q.empty(): frames.append(q.get())
Drain ==
  /\ pc = "drain" /\ q # <<>>
  /\ frames' = Append(frames, Head(q))
  /\ q' = Tail(q)
  /\ UNCHANGED <<mainVars, loadVars, modelVars, loads, ledVars, Env, recording,
                 stream, cbVars, obsVars>>

\* audio = np.concatenate(frames, axis=0) if frames else np.array([], ...)
DrainDone ==
  /\ pc = "drain" /\ q = <<>>
  /\ audio' = Concatenate(frames)
  /\ pc' = "size_chk"
  /\ UNCHANGED <<current_direction, direction_changed, new_direction,
                 play_translation, text, translation, excn, loadVars, modelVars,
                 loads, ledVars, Env, captureVars, cbVars, obsVars>>

\* if audio.size == 0: print("No audio recorded") ...
SizeCheck ==
  /\ pc = "size_chk"
  /\ pc' = IF Len(audio) = 0 THEN "no_audio" ELSE "tr_led"
  /\ UNCHANGED <<current_direction, direction_changed, new_direction,
                 play_translation, text, translation, audio, excn, loadVars,
                 modelVars, loads, ledVars, Env, captureVars, cbVars, obsVars>>

\* play_no_audio(current_direction); continue   (both of its call sites)
PlayNoAudio ==
  /\ pc = "no_audio" /\ pc' = "loop_top"
  /\ \E exists \in BOOLEAN : PlayAudioFile(NoAudioFile(current_direction), exists)
  /\ UNCHANGED <<current_direction, direction_changed, new_direction,
                 play_translation, text, translation, audio, excn, loadVars,
                 modelVars, loads, ledVars, Env, captureVars, cbVars, streamOutcome, detected, exitAtDetect, calls>>

\* red_led.on()
TranscribeLedOn ==
  /\ pc = "tr_led" /\ pc' = "transcribe"
  /\ red_led' = TRUE
  /\ UNCHANGED <<current_direction, direction_changed, new_direction,
                 play_translation, text, translation, audio, excn, loadVars,
                 modelVars, loads, green_led, Env, captureVars, cbVars, obsVars>>

\* text = transcribe(audio, 16000): the recognizer returns some text, or raises
Transcribe ==
  /\ pc = "transcribe"
  /\ calls' = [calls EXCEPT !.transcribe = 1]
  /\ \/ \E t \in Texts : text' = t /\ pc' = "tr_led_off" /\ UNCHANGED excn
     \/ excn' = "StageError" /\ pc' = "finally" /\ UNCHANGED text
  /\ UNCHANGED <<current_direction, direction_changed, new_direction,
                 play_translation, translation, audio, loadVars, modelVars, loads,
                 ledVars, Env, captureVars, cbVars, streamOutcome, detected, exitAtDetect, lastAudio>>

\* red_led.off()
TranscribeLedOff ==
  /\ pc = "tr_led_off" /\ pc' = "strip_chk"
  /\ red_led' = FALSE
  /\ UNCHANGED <<current_direction, direction_changed, new_direction,
                 play_translation, text, translation, audio, excn, loadVars,
                 modelVars, loads, green_led, Env, captureVars, cbVars, obsVars>>

\* A mutant of StripCheck: recognized speech goes to translation unpunctuated.
StripCheck_NoPunctuate ==
  /\ pc = "strip_chk"
  /\ pc' = IF Strip(text) = <<>> THEN "no_audio" ELSE "tl_led"
  /\ UNCHANGED <<current_direction, direction_changed, new_direction,
                 play_translation, text, translation, audio, excn, loadVars,
                 modelVars, loads, ledVars, Env, captureVars, cbVars, obsVars>>

\* if not text.strip(): print("No speech detected") ...
StripCheck ==
  /\ pc = "strip_chk"
  /\ pc' = IF Strip(text) = <<>> THEN "no_audio" ELSE "punctuate"
  /\ UNCHANGED <<current_direction, direction_changed, new_direction,
                 play_translation, text, translation, audio, excn, loadVars,
                 modelVars, loads, ledVars, Env, captureVars, cbVars, obsVars>>

\* text = punct_model.restore_punctuation(text), or it raises
Punctuate ==
  /\ pc = "punctuate"
  /\ calls' = [calls EXCEPT !.punctuate = 1]
  /\ \/ text' = Append(text, ".") /\ pc' = "tl_led" /\ UNCHANGED excn
     \/ excn' = "StageError" /\ pc' = "finally" /\ UNCHANGED text
  /\ UNCHANGED <<current_direction, direction_changed, new_direction,
                 play_translation, translation, audio, loadVars, modelVars, loads,
                 ledVars, Env, captureVars, cbVars, streamOutcome, detected, exitAtDetect, lastAudio>>

\* red_led.on()
TranslateLedOn ==
  /\ pc = "tl_led" /\ pc' = "translate"
  /\ red_led' = TRUE
  /\ UNCHANGED <<current_direction, direction_changed, new_direction,
                 play_translation, text, translation, audio, excn, loadVars,
                 modelVars, loads, green_led, Env, captureVars, cbVars, obsVars>>

\* A mutant of Translate: a failure of the stage is caught and the cycle ends.
Translate_Recover ==
  /\ pc = "translate"
  /\ calls' = [calls EXCEPT !.translate = 1]
  /\ \/ /\ translation' = [ct |-> translator, src |-> sp_source,
                           tgt |-> sp_target, text |-> text]
        /\ pc' = "tl_led_off" /\ UNCHANGED excn
     \/ excn' = "StageError" /\ pc' = "loop_top" /\ UNCHANGED translation
  /\ UNCHANGED <<current_direction, direction_changed, new_direction,
                 play_translation, text, audio, loadVars, modelVars, loads,
                 ledVars, Env, captureVars, cbVars, streamOutcome, detected,
                 exitAtDetect, lastAudio>>

\* translation = translate(text): the result is fixed by the tokenizers, the
\* translator and the text; or a stage raises
Translate ==
  /\ pc = "translate"
  /\ calls' = [calls EXCEPT !.translate = 1]
  /\ \/ /\ translation' = [ct |-> translator, src |-> sp_source,
                           tgt |-> sp_target, text |-> text]
        /\ pc' = "tl_led_off" /\ UNCHANGED excn
     \/ excn' = "StageError" /\ pc' = "finally" /\ UNCHANGED translation
  /\ UNCHANGED <<current_direction, direction_changed, new_direction,
                 play_translation, text, audio, loadVars, modelVars, loads,
                 ledVars, Env, captureVars, cbVars, streamOutcome, detected, exitAtDetect, lastAudio>>

\* red_led.off()
TranslateLedOff ==
  /\ pc = "tl_led_off" /\ pc' = "green_on"
  /\ red_led' = FALSE
  /\ UNCHANGED <<current_direction, direction_changed, new_direction,
                 play_translation, text, translation, audio, excn, loadVars,
                 modelVars, loads, green_led, Env, captureVars, cbVars, obsVars>>

\* ------------------------------------------- AWAITING_PLAYBACK_DECISION

\* green_led.on(); play_translation = False
GreenOn ==
  /\ pc = "green_on" /\ pc' = "aw_exit"
  /\ green_led' = TRUE
  /\ play_translation' = FALSE
  /\ UNCHANGED <<current_direction, direction_changed, new_direction, text,
                 translation, audio, excn, loadVars, modelVars, loads, red_led,
                 Env, captureVars, cbVars, obsVars>>

\* while not exit_requested:
AwaitExit ==
  /\ pc = "aw_exit"
  /\ pc' = IF exit_requested THEN "aw_green_off" ELSE "aw_btn"
  /\ UNCHANGED <<current_direction, direction_changed, new_direction,
                 play_translation, text, translation, audio, excn, loadVars,
                 modelVars, loads, ledVars, Env, captureVars, cbVars, obsVars>>

\* if record_button.is_active: play_translation = True; break
AwaitButton ==
  /\ pc = "aw_btn"
  /\ IF record_button
     THEN play_translation' = TRUE /\ pc' = "aw_green_off"
     ELSE UNCHANGED play_translation /\ pc' = "aw_dir"
  /\ UNCHANGED <<current_direction, direction_changed, new_direction, text,
                 translation, audio, excn, loadVars, modelVars, loads, ledVars, Env,
                 captureVars, cbVars, obsVars>>

\* new_direction = get_translation_direction()
\* if new_direction != current_direction: ...; time.sleep(0.01)
AwaitDirection ==
  /\ pc = "aw_dir"
  /\ new_direction' = get_translation_direction
  /\ IF get_translation_direction # current_direction
     THEN detected' = "await" /\ exitAtDetect' = exit_requested /\ pc' = "aw_sw_green"
     ELSE UNCHANGED <<detected, exitAtDetect>> /\ pc' = "aw_exit"
  /\ UNCHANGED <<current_direction, direction_changed, play_translation, text,
                 translation, audio, excn, loadVars, modelVars, loads, ledVars, Env,
                 captureVars, cbVars, streamOutcome, calls, lastAudio>>

\* green_led.off()
AwaitSwitchGreenOff ==
  /\ pc = "aw_sw_green" /\ pc' = "aw_switch"
  /\ green_led' = FALSE
  /\ UNCHANGED <<current_direction, direction_changed, new_direction,
                 play_translation, text, translation, audio, excn, loadVars,
                 modelVars, loads, red_led, Env, captureVars, cbVars, obsVars>>

\* A mutant of AwaitSwitch: the new direction is taken without load_models.
AwaitSwitch_NoLoad ==
  /\ pc = "aw_switch"
  /\ current_direction' = new_direction
  /\ loadDir' = new_direction /\ ret' = "await"
  /\ pc' = "announce"
  /\ UNCHANGED <<direction_changed, new_direction, play_translation, text,
                 translation, audio, excn, modelVars, loads, ledVars, Env,
                 captureVars, cbVars, obsVars>>

\* current_direction = new_direction; load_models(current_direction)
AwaitSwitch ==
  /\ pc = "aw_switch"
  /\ current_direction' = new_direction
  /\ loadDir' = new_direction /\ ret' = "await"
  /\ pc' = "load_models"
  /\ UNCHANGED <<direction_changed, new_direction, play_translation, text,
                 translation, audio, excn, modelVars, loads, ledVars, Env,
                 captureVars, cbVars, obsVars>>

\* A mutant of AwaitGreenOff: the green LED is left on after the poll.
AwaitGreenOff_LeftOn ==
  /\ pc = "aw_green_off" /\ pc' = "aw_chk"
  /\ UNCHANGED <<current_direction, direction_changed, new_direction,
                 play_translation, text, translation, audio, excn, loadVars,
                 modelVars, loads, ledVars, Env, captureVars, cbVars, obsVars>>

\* green_led.off()   (after the poll)
AwaitGreenOff ==
  /\ pc = "aw_green_off" /\ pc' = "aw_chk"
  /\ green_led' = FALSE
  /\ UNCHANGED <<current_direction, direction_changed, new_direction,
                 play_translation, text, translation, audio, excn, loadVars,
                 modelVars, loads, red_led, Env, captureVars, cbVars, obsVars>>

\* if exit_requested: break
\* if not play_translation: continue
AwaitCheck ==
  /\ pc = "aw_chk"
  /\ pc' = IF exit_requested THEN "finally"
           ELSE IF ~play_translation THEN "loop_top"
           ELSE "speak"
  /\ UNCHANGED <<current_direction, direction_changed, new_direction,
                 play_translation, text, translation, audio, excn, loadVars,
                 modelVars, loads, ledVars, Env, captureVars, cbVars, obsVars>>

\* speak(translation): piper with piper_voice and piper_config, or it raises
Speak ==
  /\ pc = "speak"
  /\ calls' = [calls EXCEPT !.speak = 1]
  /\ \/ pc' = "loop_top" /\ UNCHANGED excn
     \/ excn' = "StageError" /\ pc' = "finally"
  /\ UNCHANGED <<current_direction, direction_changed, new_direction,
                 play_translation, text, translation, audio, loadVars, modelVars,
                 loads, ledVars, Env, captureVars, cbVars, streamOutcome,
                 detected, exitAtDetect, lastAudio>>

\* ------------------------------------------------------------------ EXITING

\* finally: red_led.off()
ShutdownRedOff ==
  /\ pc = "finally" /\ pc' = "fin_green"
  /\ red_led' = FALSE
  /\ UNCHANGED <<current_direction, direction_changed, new_direction,
                 play_translation, text, translation, audio, excn, loadVars,
                 modelVars, loads, green_led, Env, captureVars, cbVars, obsVars>>

\* green_led.off()
ShutdownGreenOff ==
  /\ pc = "fin_green" /\ pc' = "shutdown"
  /\ green_led' = FALSE
  /\ UNCHANGED <<current_direction, direction_changed, new_direction,
                 play_translation, text, translation, audio, excn, loadVars,
                 modelVars, loads, red_led, Env, captureVars, cbVars, obsVars>>

\* os.system("sudo shutdown -h now")
Shutdown ==
  /\ pc = "shutdown" /\ pc' = "done"
  /\ UNCHANGED <<current_direction, direction_changed, new_direction,
                 play_translation, text, translation, audio, excn, loadVars,
                 modelVars, loads, ledVars, Env, captureVars, cbVars, obsVars>>

\* except KeyboardInterrupt: print(...)
\*   the interrupt signal is raised in the main thread at any point of the try
\*   block (lines 241-353).  Raised in the wait of line 286 it runs the
\*   finally clause of lines 287-291 first; raised anywhere else, inside that
\*   clause included, it goes straight to the handler and the outer finally.
KeyboardInterrupt ==
  /\ excn = None
  /\ pc \notin {"finally", "fin_green", "shutdown", "done"}
  /\ excn' = "KeyboardInterrupt"
  /\ pc' = IF pc \in WaitPcs THEN "fin_flag" ELSE "finally"
  /\ UNCHANGED <<current_direction, direction_changed, new_direction,
                 play_translation, text, translation, audio, loadVars,
                 modelVars, loads, ledVars, Env, captureVars, cbVars, obsVars>>

\* ------------------------------------------------------------ specification

MainStep ==
  \/ Startup \/ LoadSteps \/ PlayModeAnnouncement
  \/ LoopTop \/ IdleRedOff \/ IdleGreenOff
  \/ IdleWaitExit \/ IdleWaitButton \/ IdleWaitDirection \/ IdleCheck \/ IdleSwitch
  \/ NewSession \/ OpenStream \/ RecordLedOn
  \/ RecordWaitButton \/ RecordWaitExit \/ RecordWaitDirection \/ RecordWaitAfter
  \/ FinallyFlag \/ StreamStop \/ StreamClose \/ FinallyRedOff
  \/ RecordCheck \/ RecordSwitch
  \/ Drain \/ DrainDone \/ SizeCheck \/ PlayNoAudio
  \/ TranscribeLedOn \/ Transcribe \/ TranscribeLedOff \/ StripCheck
  \/ Punctuate \/ TranslateLedOn \/ Translate \/ TranslateLedOff
  \/ GreenOn \/ AwaitExit \/ AwaitButton \/ AwaitDirection
  \/ AwaitSwitchGreenOff \/ AwaitSwitch \/ AwaitGreenOff \/ AwaitCheck
  \/ Speak
  \/ KeyboardInterrupt
  \/ ShutdownRedOff \/ ShutdownGreenOff \/ Shutdown

ExitStep == ExitPressed \/ ExitToggle \/ ExitPlay \/ ExitSetFlag
CallbackStep == CallbackEnter \/ CallbackPut
OperatorStep == PressRecord \/ ReleaseRecord \/ ToggleSwitch

Next == MainStep \/ ExitStep \/ CallbackStep \/ OperatorStep

Spec == Init /\ [][Next]_vars

\* ================================================================ claims

SwitchStartPcs == {"idle_switch", "rec_switch", "aw_switch"}
PollPcs == {"iw_exit", "iw_btn", "iw_dir", "rw_btn", "rw_exit", "rw_dir",
            "aw_exit", "aw_btn", "aw_dir"}
\* between the end of a poll and the test that follows it
ResolvePcs == {"idle_chk", "rw_after", "fin_flag", "fin_stop", "fin_close",
               "fin_red", "rec_chk", "aw_green_off", "aw_chk"}
ExitPcs == {"finally", "fin_green", "shutdown", "done"}
LoadPcs == {"load_models", "u_vosk", "u_ct", "u_src", "u_tgt", "u_gc",
            "l_vosk", "l_ct", "l_src", "l_tgt", "l_voice", "l_config"}

\* the resident resources, as a ModelSet record
Resident ==
  [vosk |-> vosk_model, ct |-> translator, src |-> sp_source,
   tgt |-> sp_target, voice |-> piper_voice, config |-> piper_config]

\* C1: exit takes precedence over a direction change: the direction switch
\* (current_direction = ..., load_models, play_mode_announcement) is never
\* started for a direction change that was seen while exit_requested was true.
C1_ExitBeforeSwitch == ~(exitAtDetect /\ pc \in SwitchStartPcs)

\* C2: in a recording session whose poll saw a direction change, the capture
\* is stopped, no chunk is drained, transcribe is not called, and the
\* controller loads the new ModelSet, plays its mode announcement and is back
\* at the top of the loop (unless an exit request or an interrupt signal sends
\* it to the exit path).
C2_SwitchWhileRecording ==
  detected = "rec" =>
    /\ frames = <<>> /\ calls.transcribe = 0
    /\ pc \notin {"drain", "size_chk", "tr_led", "transcribe"}
    /\ (pc \in {"rec_chk", "rec_switch"} \cup LoadPcs) => stream = "closed"
    /\ (~exit_requested /\ excn # "KeyboardInterrupt") => pc \notin ExitPcs
    /\ pc = "loop_top" =>
         /\ current_direction = direction_changed
         /\ Resident = ModelSet(current_direction)
         /\ lastAudio.file = ModeFile(current_direction)

\* C3: when opening or starting the input stream fails, in the first session
\* or a later one, the failure raises nothing out of the main loop, the recognizer is
\* not called, and a session ended by release of the record control plays the
\* no-audio announcement of the current direction and is back at the top of
\* the loop.
C3_StartFailureNotFatal ==
  streamOutcome \in {"open_failed", "start_failed"} =>
    /\ excn \in {None, "KeyboardInterrupt"}
    /\ calls.transcribe = 0
    /\ (pc = "loop_top" /\ detected = None) =>
         lastAudio.file = NoAudioFile(current_direction)

\* C4: once the main thread has cleared recording, no chunk is appended to
\* the session's queue.
C4_NoAppendAfterClear ==
  [][(~recording) => Len(enqueued') <= Len(enqueued)]_vars

\* positions of the main thread between the creation of a session and the
\* return of stream.stop()
CapturePcs == {"open_stream", "rec_led", "rw_btn", "rw_exit", "rw_dir",
               "rw_after", "fin_flag", "fin_stop"}

\* C5: a session is stopped as clear-flag, stop, close; once stop() has
\* returned, and so while the queue is drained and until the next session is
\* created, the queue receives no append, and the drain takes every chunk that
\* was ever put in the queue.
C5_NoAppendAfterStop ==
  [][/\ (stream # "active") => Len(q') <= Len(q)
     /\ (pc \in {"fin_close", "fin_red", "rec_chk"}) => ~recording /\ stream # "active"
     /\ (pc = "drain") =>
          /\ ~recording /\ stream = "closed" /\ cbpc = "idle"
          /\ Len(frames) + Len(q) = Len(enqueued)
     /\ (pc = "size_chk") => Len(frames) = Len(enqueued) /\ q = <<>>]_vars

\* a state of C5: the drain is under way, one chunk taken and one to take
C5_Witness == pc = "drain" /\ Len(frames) = 1 /\ Len(q) = 1

\* C6: once exit_requested is set while a poll is waiting, the main thread goes
\* from that poll to the exit path and starts nothing else first (no capture,
\* no model load, no announcement, no pipeline stage, no playback).
C6_ExitResolvesPoll ==
  [][(exit_requested /\ pc \in PollPcs \cup ResolvePcs)
       => pc' \in PollPcs \cup ResolvePcs \cup ExitPcs]_vars

\* directions of which the recognizer, the translator or a tokenizer is resident
ResidentDirections ==
  {d \in Directions :
     \/ vosk_model = ModelSet(d).vosk \/ translator = ModelSet(d).ct
     \/ sp_source = ModelSet(d).src \/ sp_target = ModelSet(d).tgt}

\* C7: at most one ModelSet is resident in every state; load_models has
\* released recognizer, translator and both tokenizers and run the garbage
\* collector before it constructs the first new resource; after it returns,
\* the resident set is the whole ModelSet of its argument.
C7_AtMostOneModelSet ==
  /\ Cardinality(ResidentDirections) <= 1
  /\ pc = "l_vosk" =>
       /\ gcRuns
       /\ vosk_model = None /\ translator = None
       /\ sp_source = None /\ sp_target = None
  /\ (pc \in {"driver", "announce"} /\ loadDir # None) =>
       /\ Resident = ModelSet(loadDir)
       /\ ResidentDirections = {loadDir}

\* a state of C7: load_models(D) called again while D's set is resident, seen
\* after the release and the first construction of the second call
C7_Witness ==
  /\ pc = "l_ct" /\ loads >= 2
  /\ piper_voice = ModelSet(loadDir).voice
  /\ vosk_model = ModelSet(loadDir).vosk /\ translator = None

\* the samples of a sequence of chunks, last chunk last
RECURSIVE SamplesOf(_)
SamplesOf(cs) ==
  IF cs = <<>> THEN <<>>
  ELSE SamplesOf(SubSeq(cs, 1, Len(cs) - 1)) \o cs[Len(cs)]

RECURSIVE SumLen(_)
SumLen(cs) == IF cs = <<>> THEN 0 ELSE Len(Head(cs)) + SumLen(Tail(cs))

\* C8: the sample buffer handed to the recognizer is the chunks put in the
\* queue, in the order they were put, none dropped, repeated or moved; its
\* length is the sum of the chunk lengths.
C8_AudioIsAllChunksInOrder ==
  pc \in {"tr_led", "transcribe"} =>
    /\ Len(enqueued) >= 1
    /\ audio = SamplesOf(enqueued)
    /\ Len(audio) = SumLen(enqueued)

\* a state of C8: the recognizer is about to get a buffer of two chunks
C8_Witness == pc = "transcribe" /\ Len(enqueued) = 2 /\ Len(audio) = 3

\* a cycle that ended in the no-audio branch, seen back at the top of the loop
NoAudioCycle ==
  /\ pc = "loop_top" /\ detected = None
  /\ streamOutcome # None /\ calls.punctuate = 0

\* C9: an empty buffer and an empty or whitespace-only recognition result go
\* to the no-audio branch, which plays the no-audio file of current_direction
\* and returns to the top of the loop; with an empty buffer the recognizer is
\* not called; in both cases neither punctuation, translation nor speech runs.
C9_NoAudioBranch ==
  /\ pc \in {"tr_led", "transcribe"} => Len(audio) > 0
  /\ pc = "punctuate" => \E i \in 1..Len(text) : text[i] # " "
  /\ pc = "no_audio" =>
       /\ Len(audio) = 0 \/ (calls.transcribe = 1 /\ \A i \in 1..Len(text) : text[i] = " ")
       /\ Len(audio) = 0 => calls.transcribe = 0
       /\ calls.punctuate = 0 /\ calls.translate = 0 /\ calls.speak = 0
  /\ NoAudioCycle =>
       /\ lastAudio.file = IF current_direction = EN_TO_ES
                           THEN NO_AUDIO_EN_FILE ELSE NO_AUDIO_ES_FILE
       /\ calls.punctuate = 0 /\ calls.translate = 0 /\ calls.speak = 0
       /\ Len(audio) = 0 => calls.transcribe = 0

\* a state of C9: a whitespace-only result in direction es_to_en, after the
\* no-audio announcement
C9_Witness ==
  /\ NoAudioCycle /\ current_direction = ES_TO_EN
  /\ calls.transcribe = 1 /\ text = <<" ", " ">>
  /\ lastAudio = [file |-> NO_AUDIO_ES_FILE, played |-> TRUE]

\* C10: after the playback-decision poll saw a direction change, speak is not
\* called for the translation, the translation-ready indicator is off before
\* the switch starts and stays off, the ModelSet of the new direction is
\* loaded, its mode announcement is played, and at the top of the loop
\* current_direction is the new direction.
C10_SwitchWhileAwaiting ==
  detected = "await" =>
    /\ calls.speak = 0 /\ pc # "speak"
    /\ pc \in {"aw_sw_green", "aw_switch", "aw_green_off", "aw_chk", "loop_top",
               "announce"} \cup LoadPcs \cup ExitPcs
    /\ pc \notin ({"aw_sw_green"} \cup ExitPcs) => ~green_led
    /\ pc \in {"aw_green_off", "aw_chk", "loop_top"} =>
         /\ ~play_translation
         /\ current_direction = new_direction
         /\ Resident = ModelSet(new_direction)
         /\ translator # translation.ct
         /\ lastAudio.file = IF new_direction = ES_TO_EN
                             THEN MODE_ES_EN_FILE ELSE MODE_EN_ES_FILE
    /\ pc \notin ExitPcs => ENABLED MainStep

\* a state of C10: back at the top of the loop after the switch
C10_Witness ==
  /\ detected = "await" /\ pc = "loop_top" /\ ~exit_requested
  /\ translation.ct = "CT_EN_ES" /\ current_direction = ES_TO_EN
  /\ lastAudio = [file |-> MODE_ES_EN_FILE, played |-> TRUE]

\* the stage calls made so far in the cycle, by the stages that have run
CallsUpTo(n) ==
  [transcribe |-> IF n >= 1 THEN 1 ELSE 0, punctuate |-> IF n >= 2 THEN 1 ELSE 0,
   translate |-> IF n >= 3 THEN 1 ELSE 0, speak |-> IF n >= 4 THEN 1 ELSE 0]

Punctuated == {Append(t, ".") : t \in {u \in Texts : Strip(u) # <<>>}}

\* C11: in a cycle that speaks, the recognizer, the punctuator, the translator
\* and the synthesizer are each called once, in that order; the punctuator
\* gets the recognized text, the translator the punctuated text, the
\* synthesizer the translation of that text and the voice of
\* current_direction; speak is reached only after the playback-decision poll
\* saw the record button held; and a playback that returns goes back to the
\* top of the loop.
C11_PipelineOrder ==
  [][/\ pc = "transcribe" => calls = CallsUpTo(0)
     /\ pc = "punctuate" =>
          calls = CallsUpTo(1) /\ text \in Texts /\ Strip(text) # <<>>
     /\ pc = "translate" => calls = CallsUpTo(2) /\ text \in Punctuated
     /\ (pc = "translate" /\ pc' = "tl_led_off") =>
          translation' = [ct |-> ModelSet(current_direction).ct,
                          src |-> ModelSet(current_direction).src,
                          tgt |-> ModelSet(current_direction).tgt,
                          text |-> text]
     /\ (play_translation' /\ ~play_translation) =>
          pc = "aw_btn" /\ record_button /\ calls = CallsUpTo(3)
     /\ pc = "speak" =>
          /\ calls = CallsUpTo(3) /\ play_translation /\ detected = None
          /\ text \in Punctuated /\ translation.text = text
          /\ translation.ct = ModelSet(current_direction).ct
          /\ piper_voice = ModelSet(current_direction).voice
          /\ piper_config = ModelSet(current_direction).config
     /\ (pc = "speak" /\ pc' # "speak") =>
          \/ pc' = "loop_top" /\ calls' = CallsUpTo(4) /\ excn' = None
          \/ pc' = "finally" /\ excn' # None]_vars

\* a state of C11: a cycle has spoken its translation and is back at the top
C11_Witness ==
  /\ pc = "loop_top" /\ calls = CallsUpTo(4) /\ excn = None
  /\ translation = [ct |-> "CT_ES_EN", src |-> ModelSet(ES_TO_EN).src,
                    tgt |-> ModelSet(ES_TO_EN).tgt, text |-> <<"h", "i", ".">>]
  /\ current_direction = ES_TO_EN

\* C12: on every path into the exit sequence (exit flag, interrupt signal,
\* exception) both LEDs are off at the moment the shutdown command is issued,
\* also while exit_program is still running.
C12_IndicatorsOffAtShutdown == pc = "shutdown" => ~red_led /\ ~green_led

StagePcs == {"transcribe", "punctuate", "translate", "speak"}

\* C13: a failure raised by the recognizer, the punctuator, the translator or
\* the playback, in a cycle whose recording succeeded, is not caught in the
\* loop: the main thread goes from the failing stage to the outer finally and
\* never back to the loop; and the outer finally is the same on every path
\* (exit flag, interrupt signal, failure): red LED off, green LED off,
\* shutdown command, end.
C13_StageFailureShutsDown ==
  [][/\ (excn' = "StageError" /\ excn # "StageError") =>
          /\ pc \in StagePcs /\ pc' = "finally"
          /\ streamOutcome = "ok" /\ audio # <<>>
     /\ excn = "StageError" =>
          pc \in ExitPcs /\ pc' \in ExitPcs /\ excn' = "StageError"
     /\ (pc = "finally" /\ pc' # pc) => pc' = "fin_green" /\ ~red_led'
     /\ (pc = "fin_green" /\ pc' # pc) => pc' = "shutdown" /\ ~green_led'
     /\ (pc = "shutdown" /\ pc' # pc) => pc' = "done"
     /\ pc = "done" => pc' = "done"
     /\ pc \in {"finally", "fin_green", "shutdown"} => ENABLED MainStep]_vars

\* a state of C13: the translator failed and the shutdown command was issued
C13_Witness ==
  /\ pc = "done" /\ excn = "StageError" /\ calls = CallsUpTo(3)
  /\ ~exit_requested /\ ~red_led /\ ~green_led

IdlePollPcs == {"iw_exit", "iw_btn", "iw_dir"}
AwaitPcs == {"aw_exit", "aw_btn", "aw_dir", "aw_sw_green", "aw_green_off"}
\* a direction switch is under way: assignment, load_models, announcement
InSwitch ==
  \/ pc \in SwitchStartPcs
  \/ pc \in LoadPcs \cup {"announce"} /\ ret # "startup"

\* the idle poll runs, a direction switch is under way, or speak is called
OffStates == pc \in IdlePollPcs \cup {"speak"} \/ InSwitch

\* the green LED: off while the idle poll runs, while speaking and during a
\* direction switch; on only in the playback-decision poll (or, when an
\* interrupt ends the run there, until the final green_led.off())
GreenFollowsState ==
  /\ OffStates => ~green_led
  /\ green_led => pc \in AwaitPcs \cup {"finally", "fin_green"}

\* C14 as claimed: both LEDs are a function of the controller state in every
\* reachable state, also while exit_program runs: both off while the idle poll
\* runs, while speaking and during a direction switch; green on only in the
\* playback-decision poll.
C14_IndicatorsFollowState ==
  /\ GreenFollowsState
  /\ OffStates => ~red_led

\* C14 amended: the green LED is a function of the controller state in every
\* reachable state, also while exit_program runs; the red LED is off while
\* the idle poll runs, while speaking and during a direction switch as long
\* as the exit button has not been pressed (exit_program toggles it whatever
\* the controller state is).
C14_IndicatorsFollowStateUntilExit ==
  /\ GreenFollowsState
  /\ (presses = 0 /\ OffStates) => ~red_led

\* a state of C14: the playback-decision poll runs with the green LED on
\* while exit_program is toggling the red LED
C14_Witness ==
  /\ pc = "aw_btn" /\ green_led /\ red_led /\ epc = "toggle" /\ toggles = 3

\* C15: an input stream is open only in a recording session (from its
\* creation to the return of stream.close()); in every other state of the
\* main thread, the exit sequence included, the stream is unbound or closed.
C15_CaptureOnlyWhileRecording ==
  pc \notin CapturePcs \cup {"fin_close"} => stream \in {"unbound", "closed"}

\* C16: no step of the main thread, of exit_program (a second press of the
\* exit button included) or of the audio callback sets exit_requested back to
\* false.
C16_ExitFlagMonotonic == [][exit_requested => exit_requested']_vars

\* a state of C16: the flag is set and a second exit_program has run through
C16_Witness ==
  exit_requested /\ presses = 2 /\ epc = "idle" /\ pc = "shutdown"

SessionPcs == {"new_session"} \cup CapturePcs \cup {"fin_close", "fin_red", "rec_chk"}

\* C17: the idle poll reads the exit flag, then the record button, then the
\* direction switch.  With the flag clear and the button held it returns None
\* whatever the switch shows; a None result never starts a switch in IDLE but
\* a recording session, opened and run with current_direction and its
\* ModelSet unchanged; in that session only the recording poll reports the
\* direction change, and a session in which it did is stopped and closed, and
\* nothing of it is drained or transcribed.
C17_IdlePollOrder ==
  [][/\ (pc = "iw_exit" /\ pc' = "iw_btn") => ~exit_requested
     /\ (pc = "iw_btn" /\ record_button /\ pc' \notin {pc, "finally"}) =>
          pc' = "idle_chk" /\ direction_changed' = None /\ detected' = None
     /\ (pc = "iw_btn" /\ pc' = "iw_dir") => ~record_button
     /\ (pc = "idle_chk" /\ direction_changed = None /\ pc' \notin {pc, "finally"}) =>
          pc' = "new_session"
     /\ pc = "idle_switch" => detected = "idle"
     /\ pc \in SessionPcs =>
          /\ Resident = ModelSet(current_direction)
          /\ current_direction' = current_direction
          /\ detected \in {None, "rec"}
     /\ (detected' = "rec" /\ detected # "rec") => pc = "rw_dir" /\ pc' = "fin_flag"
     /\ detected = "rec" =>
          /\ frames = <<>> /\ calls = CallsUpTo(0)
          /\ pc \notin {"drain", "size_chk", "tr_led"} \cup StagePcs
          /\ pc \in {"rec_chk", "rec_switch"} => stream = "closed"]_vars

\* a state of C17: the idle poll has returned None on the held button while
\* the switch shows the other direction
C17_Witness ==
  /\ pc = "idle_chk" /\ direction_changed = None /\ ~exit_requested
  /\ record_button /\ get_translation_direction # current_direction

\* C18: exit_program toggles the red LED ToggleCount times, then plays the
\* exit sound, then sets exit_requested: the flag is false until the first
\* run of exit_program has done all of that; until the flag is set the main
\* thread leaves its loop only through an exception, so it still polls the
\* controls; and on the path without exception the shutdown command is
\* issued with the flag set, hence after the exit sound.
C18_FlagAfterExitSequence ==
  [][/\ (toggles' # toggles) =>
          \/ toggles' = 0 /\ epc = "idle" /\ epc' = "toggle"
          \/ toggles' = toggles + 1 /\ epc = "toggle" /\ red_led' = ~red_led
     /\ (epc' = "set" /\ epc # "set") => epc = "toggle" /\ toggles = ToggleCount
     /\ (exit_requested' /\ ~exit_requested) =>
          epc = "set" /\ toggles = ToggleCount /\ presses = 1
     /\ (presses = 0 \/ (presses = 1 /\ epc # "idle")) => ~exit_requested
     /\ (~exit_requested /\ pc \notin ExitPcs /\ pc' \in ExitPcs) => excn' # None
     /\ (pc \in {"shutdown", "done"} /\ excn = None) => exit_requested]_vars

\* a state of C18: the exit sequence has run once, the main thread has seen the
\* flag and is about to issue the shutdown command
C18_Witness ==
  /\ pc = "shutdown" /\ excn = None /\ exit_requested
  /\ presses = 1 /\ epc = "idle" /\ toggles = ToggleCount

\* C19: when transcribe, translate or speak is called, the six loaded models
\* are those of current_direction; current_direction is assigned only by a
\* statement that is followed at once by load_models of the new value; from
\* that assignment to the return of load_models the main thread is inside
\* load_models (or leaves the loop on an interrupt), and on return the models
\* of the new direction are loaded; outside load_models and the exit sequence
\* the loaded models are always those of current_direction.
C19_ModelsMatchDirection ==
  [][/\ pc \in StagePcs => Resident = ModelSet(current_direction)
     /\ (current_direction' # current_direction) =>
          /\ pc \in SwitchStartPcs \cup {"start"}
          /\ pc' = "load_models" /\ loadDir' = current_direction'
     /\ pc \in LoadPcs =>
          /\ loadDir = current_direction
          /\ pc' \in LoadPcs \cup {"announce", "finally"}
          /\ pc' = "announce" => Resident' = ModelSet(current_direction)
     /\ pc \notin LoadPcs \cup ExitPcs \cup {"start"} =>
          Resident = ModelSet(current_direction)]_vars

\* a state of C19: a recording was cancelled by a direction change and the
\* models of the new direction have been loaded
C19_Witness ==
  /\ pc = "announce" /\ ret = "rec" /\ detected = "rec" /\ Len(q) >= 1
  /\ current_direction = ES_TO_EN /\ Resident = ModelSet(ES_TO_EN)

\* C20: a recording session starts with an empty queue and an empty frame
\* list, and with the stream of the session before it closed and no callback
\* of it running; from then to the end of the drain the frames and the queue
\* hold exactly the chunks the callback put in this session, in order; and the
\* audio given to transcribe is the samples of those chunks only.
C20_SessionIsolation ==
  [][/\ (pc = "new_session" /\ pc' = "open_stream") =>
          q' = <<>> /\ frames' = <<>> /\ recording'
     /\ pc \in {"new_session", "open_stream"} =>
          /\ stream \in {"unbound", "closed"} /\ cbpc = "idle"
          /\ enqueued = <<>> /\ delivered = 0
     /\ pc \in CapturePcs \cup {"fin_close", "fin_red", "rec_chk", "drain"} =>
          frames \o q = enqueued
     /\ pc \in {"size_chk", "tr_led", "transcribe"} =>
          /\ frames = enqueued /\ q = <<>>
          /\ audio = SamplesOf(enqueued)
          /\ Len(enqueued) <= delivered]_vars

\* a state of C20: a session starts after an earlier one, whose stream is
\* closed, with its queue and frame list empty
C20_Witness ==
  /\ pc = "open_stream" /\ stream = "closed" /\ recording
  /\ q = <<>> /\ frames = <<>>

====
